---- MODULE Spec2Model ----
(***************************************************************************)
(* kubeglass: capture program (bpf/write_tracer.c), transport channel,     *)
(* interactive consumer (cmd/kubeglass/tui.go, main.go) and the            *)
(* non-interactive pipeline (perf-buffer variant of main).                 *)
(*                                                                         *)
(* Bytes are integers 0..255; a byte string is a sequence of bytes.        *)
(***************************************************************************)
EXTENDS Integers, Sequences, FiniteSets, TLC

VARIABLES
    \* ---- process / control plane (func main) ----
    mainPc,       \* position of func main
    objs,         \* bpfObjects: "none" | "open" | "closed"
    objsCloses,   \* number of objs.Close() calls
    tp,           \* tracepoint link: "none" | "open" | "closed"
    tpCloses,     \* number of tp.Close() calls
    rd,           \* transport channel reader: "none" | "open" | "closed"
    exitCode,     \* -1 while running, else the process exit status
    \* ---- kernel side ----
    target_pid,   \* the Watch Set (BPF hash map, key = value = pid)
    ring,         \* committed, not yet consumed records of the events map
    nwrites,      \* write calls seen by the capture program (bounded)
    dropped,      \* history: seq of the records that met a full channel
    \* ---- record-pulling task ----
    pollPc,       \* "none" | "read" | "fdcheck" | "bincheck" | "grepcheck" | "send" | "stopped"
    pollEv,       \* the Event being filtered / delivered (<<>> when none)
    pollErr,      \* value returned by the pull: "" | "nil" | "malformed" | "readerr"
    pulls,        \* pollNextEvent commands started whose message Update has not handled
    \* ---- consumer model (tuiModel) ----
    tui,          \* "off" | "running" | "quitting" | "terminated"; "none": the variant without TUI
    showAll, fdFilter, skipBinary, grepRegex, filtering,
    input,        \* textinput value (draft pattern)
    entryLen,     \* history: length of the draft when filter entry began (0 in Normal)
    helpShowAll, err, events, ready,
    viewport,     \* viewport.Model: Height, YOffset and the number of content lines
    accepted,     \* history: the Events the pulling task returned, in order
    \* ---- non-interactive pipeline (perf-buffer variant of main) ----
    ctxDone,      \* cancel() was called
    done,         \* the done channel is closed
    lost,         \* samples the kernel dropped since the last delivered one
    fdsFlag,      \* the numbers of the --fds flag (<<>>: flag not given)
    suppressRepeats, lastEvent, lastDataStr, repeatCount,
    out           \* lines printed to standard output

vars == <<mainPc, objs, objsCloses, tp, tpCloses, rd, exitCode,
          target_pid, ring, nwrites, dropped, pollPc, pollEv, pollErr, pulls,
          tui, showAll, fdFilter, skipBinary, grepRegex, filtering,
          input, entryLen, helpShowAll, err, events, ready, viewport, accepted,
          ctxDone, done, lost, fdsFlag, suppressRepeats, lastEvent,
          lastDataStr, repeatCount, out>>

mainVars == <<mainPc, objs, objsCloses, tp, tpCloses, rd, exitCode>>
kernVars == <<target_pid, ring, nwrites, dropped>>
pollVars == <<pollPc, pollEv, pollErr, pulls>>
filterVars == <<showAll, fdFilter, skipBinary, grepRegex, filtering>>
uiVars   == <<input, entryLen, helpShowAll, err, events, ready, viewport>>
repVars  == <<fdsFlag, suppressRepeats, lastEvent, lastDataStr, repeatCount, out>>
cliVars  == <<ctxDone, done, lost, repVars>>

----------------------------------------------------------------------------
(* Bounds of the model *)
MaxWrites == 3      \* write calls of the watched process per run
RingCap   == 2      \* records the channel holds before it is full
MaxDraft  == 1      \* characters typed into the filter input
PerfCap   == 1      \* samples the perf buffer holds before it is full
MaxText   == 3      \* bytes of the short payloads that are enumerated
ViewHeight == 1     \* rows of the viewport once the window size is known

(* Program constants *)
DataSize   == 240   \* sizeof(event.data)
RecordSize == 252   \* sizeof(struct write_event_t)
HexMax     == 32    \* maxLen in formatData

\* A 64-bit unsigned value is four 16-bit limbs <<w3, w2, w1, w0>>, most
\* significant first: TLC integers are narrower than __u64.
Limb == 2^16
U64(n) == <<0, 0, n \div Limb, n % Limb>>          \* a small n as __u64
U64Max == <<Limb - 1, Limb - 1, Limb - 1, Limb - 1>>
\* unsigned comparison of a __u64 with a small constant k < 2^16
U64Gt(c, k) == c[1] > 0 \/ c[2] > 0 \/ c[3] > 0 \/ c[4] > k
\* conversion of a __u64 to __u32 keeps the two low limbs
U32Of(c) == <<c[3], c[4]>>
\* the value of a __u32 that is known to fit TLC integers
U32Val(w) == w[1] * Limb + w[2]

TargetPID == 66051           \* the --pid flag (0x00010203)
OtherPID  == TargetPID + 1   \* some process that is not watched


----------------------------------------------------------------------------
(* ---- pure functions of main.go ---- *)

\* unicode.IsPrint(rune(b)) for a byte (Latin-1 range)
IsPrint(b) == \/ (b >= 32 /\ b <= 126)
              \/ (b >= 161 /\ b <= 255 /\ b # 173)

IsPrintableByte(b) == b = 10 \/ b = 13 \/ b = 9 \/ IsPrint(b)

\* the counting loop of isPrintable
printableCount(data) == Cardinality({i \in 1..Len(data) : IsPrintableByte(data[i])})

\* a classifier that takes a ratio of exactly 90% for text
isPrintableAtLeast(data) ==
    IF Len(data) = 0 THEN TRUE
    ELSE 10 * Cardinality({i \in 1..Len(data) : IsPrintableByte(data[i])}) >= 9 * Len(data)

\* a classifier without the special case of the empty payload
isPrintableNoEmpty(data) ==
    10 * Cardinality({i \in 1..Len(data) : IsPrintableByte(data[i])}) > 9 * Len(data)

\* float64(p)/float64(L) > 0.9: for L <= 240 the quotient is at least 1/2400
\* away from 0.9 unless 10p = 9L, where both sides round to the same double
isPrintable(data) ==
    IF Len(data) = 0 THEN TRUE
    ELSE 10 * printableCount(data) > 9 * Len(data)

\* a search that never finds a null byte
IndexNullNone(data) == -1

\* bytes.IndexByte(data, 0): 0-based index, -1 when absent
IndexNull(data) ==
    LET nulls == {i \in 1..Len(data) : data[i] = 0}
    IN IF nulls = {} THEN -1
       ELSE (CHOOSE i \in nulls : \A j \in nulls : i <= j) - 1

\* the loop of formatData: every non-null byte is printable or \n \r \t
AllPrintable(data) ==
    \A i \in 1..Len(data) : data[i] = 0 \/ IsPrintableByte(data[i])

\* bytes.TrimRight(data, "\x00")
TrimRightNull(data) ==
    LET keep == {i \in 1..Len(data) : data[i] # 0}
    IN IF keep = {} THEN <<>>
       ELSE SubSeq(data, 1, CHOOSE i \in keep : \A j \in keep : j <= i)

\* strings.ReplaceAll(s, old, new) for a one-byte old
RECURSIVE ReplaceAll(_, _, _)
ReplaceAll(s, old, new) ==
    IF s = <<>> THEN <<>>
    ELSE IF Len(s) = 1 THEN (IF s[1] = old THEN new ELSE s)
    ELSE LET h == Len(s) \div 2
         IN ReplaceAll(SubSeq(s, 1, h), old, new) \o ReplaceAll(SubSeq(s, h + 1, Len(s)), old, new)

\* lines 117-119: \n, then \r, then \t, each to backslash + letter
Escape(s) ==
    ReplaceAll(ReplaceAll(ReplaceAll(s, 10, <<92, 110>>), 13, <<92, 114>>), 9, <<92, 116>>)

EmptyMarker == <<60, 101, 109, 112, 116, 121, 62>>   \* "<empty>"

Str(bytes) == [kind |-> "str", bytes |-> bytes, total |-> <<>>]
\* a dump that never carries the annotation of the total length
HexDumpNoTotal(bytes, total) == [kind |-> "hexdump", bytes |-> bytes, total |-> <<>>]

\* hex.Dump(bytes), followed by "... (n bytes total)" when total = <<n>>
HexDump(bytes, total) == [kind |-> "hexdump", bytes |-> bytes, total |-> total]

formatData(data) ==
    IF Len(data) = 0 THEN Str(EmptyMarker)
    ELSE IF AllPrintable(data)
         THEN LET nullByteIndex == IndexNull(data)
                  cut == IF nullByteIndex >= 0 THEN SubSeq(data, 1, nullByteIndex) ELSE data
              IN Str(Escape(TrimRightNull(cut)))
         ELSE IF Len(data) > HexMax
              THEN HexDump(SubSeq(data, 1, HexMax), <<Len(data)>>)
              ELSE HexDump(data, <<>>)

\* a naming that knows no standard stream
fdStringNumeric(fd) == <<"fd", fd>>

\* main.go lines 145-156
fdString(fd) ==
    CASE fd = 0 -> <<"stdin">>
      [] fd = 1 -> <<"stdout">>
      [] fd = 2 -> <<"stderr">>
      [] OTHER  -> <<"fd", fd>>

----------------------------------------------------------------------------
(* ---- regexp: the patterns the filter input can hold ---- *)
(* The draft is typed with the keys a, b, ? and / ; over that alphabet a   *)
(* pattern is a sequence of literals, each optionally followed by ? or ??. *)

QMark == 63

\* regexp.Compile succeeds: no ? without an operand, no ??? (nested repetition)
RECURSIVE ValidFrom(_, _)
ValidFrom(text, q) ==
    \* q: number of ? seen since the last literal; 3 = no literal yet
    IF text = <<>> THEN TRUE
    ELSE IF Head(text) = QMark
         THEN q < 2 /\ ValidFrom(Tail(text), q + 1)
         ELSE ValidFrom(Tail(text), 0)

ValidPattern(text) == ValidFrom(text, 3)

\* the literal strings a (valid) pattern stands for
RECURSIVE Expansions(_)
Expansions(text) ==
    IF text = <<>> THEN {<<>>}
    ELSE LET c == Head(text)
             nq == IF Len(text) >= 3 /\ text[2] = QMark /\ text[3] = QMark THEN 2
                   ELSE IF Len(text) >= 2 /\ text[2] = QMark THEN 1 ELSE 0
             rest == Expansions(SubSeq(text, nq + 2, Len(text)))
         IN {<<c>> \o r : r \in rest} \cup (IF nq > 0 THEN rest ELSE {})

IsSubstr(s, data) ==
    \E i \in 0..(Len(data) - Len(s)) : SubSeq(data, i + 1, i + Len(s)) = s

\* a Compile that returns a regexp for every text
CompileAlways(text) == <<text>>

\* regexp.Compile: <<pattern>> when it compiles, <<>> (nil) when it does not
Compile(text) == IF ValidPattern(text) THEN <<text>> ELSE <<>>

\* Regexp.Match on a non-nil regexp
Match(re, data) == \E s \in Expansions(re[1]) : IsSubstr(s, data)

----------------------------------------------------------------------------
(* ---- capture program: trace_write (ring-buffer variant) ---- *)

\* bpf_probe_read_user(event.data, count, buf_ptr): the bytes that land in
\* event.data; the array was zeroed, and a failed read leaves it zero.
\* data holds the written prefix, the rest of the 240 bytes is 0.
ProbeReadUser(buf, count, ok) ==
    IF ok /\ count <= Len(buf) THEN SubSeq(buf, 1, count) ELSE <<>>

\* a clamp that compares the count after truncating it to 32 bits
ClampCount32(count) ==
    IF count[3] > 0 \/ count[4] > DataSize THEN U64(DataSize) ELSE count

\* lines 46-47: if (count > sizeof(event.data)) count = sizeof(event.data)
ClampCount(count) == IF U64Gt(count, DataSize) THEN U64(DataSize) ELSE count

\* lines 35-52: the event trace_write builds for write(fd, buf, count).
\* seq, req and faulted are history fields: the number of the write call,
\* the count it asked for, and whether bpf_probe_read_user failed
BuildEvent(pid, fd, buf, count0, ok) ==
    LET count == ClampCount(count0)
        n == U32Val(U32Of(count))
    IN [pid |-> pid, fd |-> fd,
        data |-> IF U64Gt(count, 0) THEN ProbeReadUser(buf, n, ok) ELSE <<>>,
        data_len |-> U32Val(U32Of(count)),
        size |-> RecordSize, lost |-> 0,
        seq |-> nwrites + 1, req |-> count0,
        faulted |-> U64Gt(count, 0) /\ ~(ok /\ n <= Len(buf))]

\* a channel that hands the newest record out first
RingbufOutputFront(r, ev) == IF Len(r) < RingCap THEN <<ev>> \o r ELSE r

\* a capture program that gives up when the copy from user space failed
RingbufOutputUnlessFaulted(r, ev) ==
    IF Len(r) < RingCap /\ ~ev.faulted THEN Append(r, ev) ELSE r

\* a channel that makes room by discarding its oldest record
RingbufOutputOverwrite(r, ev) == IF Len(r) < RingCap THEN Append(r, ev) ELSE Append(Tail(r), ev)

\* bpf_ringbuf_output: appended unless the buffer is full
RingbufOutput(r, ev) == IF Len(r) < RingCap THEN Append(r, ev) ELSE r

\* a lookup that finds an entry for every pid
WatchingAll(pid) == TRUE

\* lines 31-33: bpf_map_lookup_elem(&target_pid, &pid) finds an entry
Watching(pid) == pid \in target_pid

trace_write(pid, fd, buf, count, ok) ==
    /\ tp = "open"
    /\ exitCode = -1
    /\ nwrites < MaxWrites
    /\ nwrites' = nwrites + 1
    /\ ring' = IF Watching(pid)
               THEN RingbufOutput(ring, BuildEvent(pid, fd, buf, count, ok))
               ELSE ring
    /\ dropped' = IF Watching(pid) /\ Len(ring) >= RingCap
                  THEN dropped \cup {nwrites + 1}
                  ELSE dropped
    /\ UNCHANGED <<target_pid, mainVars, pollVars, tui, filterVars, uiVars, accepted, cliVars>>

----------------------------------------------------------------------------
(* ---- func main (interactive variant, cmd/kubeglass/main.go) ---- *)

\* a consumer that starts a pull with every command it returns
PullsStartedAlways(msg) == 1

\* the number of pollNextEvent commands in what is returned for a message:
\* Init and case Event return m.pollNextEvent; case error and the quit key
\* return tea.Quit, the filter key nil, the others the commands of the
\* text input and the viewport
PullsStarted(msg) == IF msg \in {"init", "Event"} THEN 1 ELSE 0

\* os.Exit(1): the process ends at once, deferred calls do not run
OsExit(code) ==
    /\ mainPc' = "exited"
    /\ exitCode' = code

\* loadBpfObjects; defer objs.Close()
MainLoad(ok) ==
    /\ mainPc = "load"
    /\ IF ok THEN /\ objs' = "open"
                  /\ mainPc' = "put"
                  /\ UNCHANGED exitCode
             ELSE /\ OsExit(1)
                  /\ UNCHANGED objs
    /\ UNCHANGED <<objsCloses, tp, tpCloses, rd, kernVars, pollVars, tui, filterVars, uiVars, accepted, cliVars>>

\* objs.TargetPid.Put(pid, pid)
MainPut(ok) ==
    /\ mainPc = "put"
    /\ IF ok THEN /\ target_pid' = target_pid \cup {TargetPID}
                  /\ mainPc' = "attach"
                  /\ UNCHANGED exitCode
             ELSE /\ OsExit(1)
                  /\ UNCHANGED target_pid
    /\ UNCHANGED <<objs, objsCloses, tp, tpCloses, rd, ring, nwrites, dropped, pollVars, tui, filterVars, uiVars, accepted, cliVars>>

\* link.Tracepoint(...); defer tp.Close()
MainAttach(ok) ==
    /\ mainPc = "attach"
    /\ IF ok THEN /\ tp' = "open"
                  /\ mainPc' = "newreader"
                  /\ UNCHANGED exitCode
             ELSE /\ OsExit(1)
                  /\ UNCHANGED tp
    /\ UNCHANGED <<objs, objsCloses, tpCloses, rd, kernVars, pollVars, tui, filterVars, uiVars, accepted, cliVars>>

\* ringbuf.NewReader(objs.Events)
MainNewReader(ok) ==
    /\ mainPc = "newreader"
    /\ IF ok THEN /\ rd' = "open"
                  /\ mainPc' = "run"
                  /\ UNCHANGED exitCode
             ELSE /\ OsExit(1)
                  /\ UNCHANGED rd
    /\ UNCHANGED <<objs, objsCloses, tp, tpCloses, kernVars, pollVars, tui, filterVars, uiVars, accepted, cliVars>>

\* newTUIModel + p.Run(): the program starts and runs Init's command, or
\* Run fails and main calls os.Exit(1)
MainRun(ok) ==
    /\ mainPc = "run"
    /\ tui = "off"
    /\ IF ok THEN /\ tui' = "running"
                  /\ pollPc' = "read"
                  /\ pulls' = pulls + PullsStarted("init")
                  /\ UNCHANGED <<mainPc, exitCode>>
             ELSE /\ OsExit(1)
                  /\ UNCHANGED <<tui, pollPc, pulls>>
    /\ UNCHANGED <<objs, objsCloses, tp, tpCloses, rd, kernVars, pollEv, pollErr, filterVars, uiVars, accepted, cliVars>>

\* p.Run() returned nil: main returns and its deferred calls run
\* (tp.Close(), objs.Close(), cancel())
MainReturn ==
    /\ mainPc = "run"
    /\ tui = "terminated"
    /\ tp' = "closed"
    /\ tpCloses' = tpCloses + 1
    /\ objs' = "closed"
    /\ objsCloses' = objsCloses + 1
    /\ mainPc' = "exited"
    /\ exitCode' = 0
    /\ UNCHANGED <<rd, kernVars, pollVars, tui, filterVars, uiVars, accepted, cliVars>>

----------------------------------------------------------------------------
(* ---- record-pulling task: tuiModel.pollNextEvent ---- *)

\* what rd.Read() hands over for the record at the head of the channel
RawSample(rec, fault) ==
    CASE fault = "none"   -> rec
      [] fault = "short"  -> [rec EXCEPT !.size = RecordSize - 1]
      [] fault = "badlen" -> [rec EXCEPT !.data_len = DataSize + 1]

\* a __u32 (below 2^31) in the memory of a little-endian machine
LE32(n) == <<n % 256, (n \div 256) % 256, (n \div 65536) % 256, (n \div 16777216) % 256>>

\* struct write_event_t as the capture program lays it out: pid at offset 0,
\* fd at 4, data[240] at 8, data_len at 248; cut to the size the reader got
RawBytes(rec) ==
    LET image == LE32(rec.pid) \o LE32(rec.fd)
                 \o [i \in 1..DataSize |-> IF i <= Len(rec.data) THEN rec.data[i] ELSE 0]
                 \o LE32(rec.data_len)
    IN SubSeq(image, 1, rec.size)

\* binary.LittleEndian.Uint32 of the 4 bytes at 0-based offset off
Uint32LE(b, off) ==
    b[off + 1] + 256 * b[off + 2] + 65536 * b[off + 3] + 16777216 * b[off + 4]

\* binary.Read(..., binary.LittleEndian, &bpfEvent) of at least 252 bytes
BinaryRead(b) ==
    [PID |-> Uint32LE(b, 0), FD |-> Uint32LE(b, 4),
     Data |-> SubSeq(b, 9, 8 + DataSize), DataLen |-> Uint32LE(b, 8 + DataSize)]

\* a payload that is the whole data array
PayloadWhole(bpfEvent) == bpfEvent.Data

\* bpfEvent.Data[:bpfEvent.DataLen], DataLen <= 240
Payload(bpfEvent) == SubSeq(bpfEvent.Data, 1, bpfEvent.DataLen)

\* lines 84-94: decode the raw sample and build the Event (seq: history)
DecodeEvent(rec) ==
    LET bpfEvent == BinaryRead(RawBytes(rec))
    IN [PID |-> bpfEvent.PID, FD |-> bpfEvent.FD, Payload |-> Payload(bpfEvent), seq |-> rec.seq]

\* lines 77-94: one rd.Read() and the decoding of its record
PollRead(outcome, fault) ==
    /\ pollPc = "read"
    /\ exitCode = -1
    /\ CASE outcome = "closed" ->
              \* ringbuf.ErrClosed or io.EOF: return nil
              /\ pollPc' = "send"
              /\ pollErr' = "nil"
              /\ UNCHANGED <<pollEv, ring, mainPc, exitCode>>
         [] outcome = "error" ->
              \* return err
              /\ pollPc' = "send"
              /\ pollErr' = "readerr"
              /\ UNCHANGED <<pollEv, ring, mainPc, exitCode>>
         [] outcome = "record" ->
              /\ ring # <<>>
              /\ ring' = Tail(ring)
              /\ LET raw == RawSample(Head(ring), fault) IN
                 IF raw.size < RecordSize
                 THEN \* binary.Read fails: return err
                      /\ pollPc' = "send"
                      /\ pollErr' = "malformed"
                      /\ UNCHANGED <<pollEv, mainPc, exitCode>>
                 ELSE IF raw.data_len > DataSize
                 THEN \* slice bounds out of range: the goroutine panics
                      /\ pollPc' = "stopped"
                      /\ pollErr' = "panic"
                      /\ mainPc' = "exited"
                      /\ exitCode' = 2
                      /\ UNCHANGED pollEv
                 ELSE /\ pollEv' = <<DecodeEvent(raw)>>
                      /\ pollPc' = "fdcheck"
                      /\ UNCHANGED <<pollErr, mainPc, exitCode>>
    /\ UNCHANGED <<objs, objsCloses, tp, tpCloses, rd, target_pid, nwrites, dropped, pulls, tui, filterVars, uiVars, accepted, cliVars>>

\* a descriptor test that looks at showAll only
PassFdAny(ev, all, allow) == TRUE

\* a regex test on the payload as it is displayed, cut at its first null
PassRegexCut(ev, re) ==
    ~(re # <<>> /\ ~Match(re, IF IndexNull(ev.Payload) >= 0
                              THEN SubSeq(ev.Payload, 1, IndexNull(ev.Payload))
                              ELSE ev.Payload))

\* the three filter tests, each reading fields of the model m
PassFd(ev, all, allow) == all \/ ev.FD \in allow
PassBinary(ev, skip) == ~(skip /\ ~isPrintable(ev.Payload))
PassRegex(ev, re) == ~(re # <<>> /\ ~Match(re, ev.Payload))

\* lines 96-98
PollFdCheck ==
    /\ pollPc = "fdcheck"
    /\ exitCode = -1
    /\ IF PassFd(pollEv[1], showAll, fdFilter)
       THEN pollPc' = "bincheck" /\ UNCHANGED pollEv
       ELSE pollPc' = "read" /\ pollEv' = <<>>
    /\ UNCHANGED <<pollErr, pulls, mainVars, kernVars, tui, filterVars, uiVars, accepted, cliVars>>

\* lines 99-101
PollBinCheck ==
    /\ pollPc = "bincheck"
    /\ exitCode = -1
    /\ IF PassBinary(pollEv[1], skipBinary)
       THEN pollPc' = "grepcheck" /\ UNCHANGED pollEv
       ELSE pollPc' = "read" /\ pollEv' = <<>>
    /\ UNCHANGED <<pollErr, pulls, mainVars, kernVars, tui, filterVars, uiVars, accepted, cliVars>>

\* lines 102-106
PollGrepCheck ==
    /\ pollPc = "grepcheck"
    /\ exitCode = -1
    /\ IF PassRegex(pollEv[1], grepRegex)
       THEN pollPc' = "send" /\ accepted' = Append(accepted, pollEv[1]) /\ UNCHANGED pollEv
       ELSE pollPc' = "read" /\ pollEv' = <<>> /\ UNCHANGED accepted
    /\ UNCHANGED <<pollErr, pulls, mainVars, kernVars, tui, filterVars, uiVars, cliVars>>

----------------------------------------------------------------------------
(* ---- consumer: tuiModel.Update, one message at a time ---- *)

\* lines a display line takes in the viewport content: a text is one line
\* (its newlines are escaped); hex.Dump ends each row of 16 bytes with a
\* newline, followed by the annotation or by nothing
Rows(text) ==
    IF text.kind = "str" THEN 1 ELSE (Len(text.bytes) + 15) \div 16 + 1

\* number of lines of strings.Join(m.events, "\n")
RECURSIVE ContentLines(_)
ContentLines(evs) ==
    IF evs = <<>> THEN 0 ELSE Rows(Head(evs).text) + ContentLines(Tail(evs))

\* the zero viewport.Model of a tuiModel before the first WindowSizeMsg
ZeroViewport == [Height |-> 0, YOffset |-> 0, lines |-> 0]

\* viewport.New(width, height)
NewViewport(height) == [Height |-> height, YOffset |-> 0, lines |-> 0]

\* viewport: maxYOffset, SetYOffset (clamped), AtBottom
MaxYOffset(vp) == IF vp.lines > vp.Height THEN vp.lines - vp.Height ELSE 0
SetYOffset(vp, n) ==
    [vp EXCEPT !.YOffset = IF n < 0 THEN 0 ELSE IF n > MaxYOffset(vp) THEN MaxYOffset(vp) ELSE n]
AtBottom(vp) == vp.YOffset >= MaxYOffset(vp)

\* viewport.GotoBottom()
GotoBottom(vp) == SetYOffset(vp, MaxYOffset(vp))

\* viewport.SetContent(s) for a content of n lines
SetContent(vp, n) ==
    LET v == [vp EXCEPT !.lines = n]
    IN IF v.YOffset > n - 1 THEN GotoBottom(v) ELSE v

\* viewport.LineUp(n), viewport.LineDown(n)
LineUp(vp, n) ==
    IF vp.YOffset <= 0 \/ n = 0 \/ vp.lines = 0 THEN vp ELSE SetYOffset(vp, vp.YOffset - n)
LineDown(vp, n) ==
    IF AtBottom(vp) \/ n = 0 \/ vp.lines = 0 THEN vp ELSE SetYOffset(vp, vp.YOffset + n)

\* lines 182-183: m.viewport.Update(msg) for a key of the default key map
\* (up: one line up, down: one line down, b: one page up)
ViewportUpdate(vp, k) ==
    CASE k = "up"   -> LineUp(vp, 1)
      [] k = "down" -> LineDown(vp, 1)
      [] k = "b"    -> LineUp(vp, vp.Height)
      [] OTHER      -> vp

\* a consumer whose Update is still called after p.Run() has returned
RunningAfterQuit == tui \in {"running", "quitting", "terminated"} /\ exitCode = -1

\* Update is called while the event loop of p.Run() is alive
Running == tui \in {"running", "quitting"} /\ exitCode = -1

\* line 137: fmt.Sprintf("[PID %d, %s] %s", ...)
Line(ev) == [pid |-> ev.PID, fd |-> fdString(ev.FD), text |-> formatData(ev.Payload), seq |-> ev.seq]

\* a list that shows the newest line only
KeepNewest(evs, line) == <<line>>

\* line 138: m.events = append(m.events, line)
AppendLine(evs, line) == Append(evs, line)

\* case Event (lines 136-141): append the line, start the next pull
UpdateEvent ==
    /\ Running
    /\ pollPc = "send"
    /\ pollErr = ""
    /\ events' = AppendLine(events, Line(pollEv[1]))
    /\ viewport' = GotoBottom(SetContent(viewport, ContentLines(events')))
    /\ pollPc' = "read"
    /\ pollEv' = <<>>
    /\ pulls' = pulls - 1 + PullsStarted("Event")
    /\ UNCHANGED <<pollErr, mainVars, kernVars, tui, filterVars, input, entryLen, helpShowAll, err, ready, accepted, cliVars>>

\* the pull returned nil (lines 79-81): no case of Update handles a nil
\* message, the model is left as it is and no new pull is started
UpdateNil ==
    /\ Running
    /\ pollPc = "send"
    /\ pollErr = "nil"
    /\ pollPc' = "stopped"
    /\ pulls' = pulls - 1 + PullsStarted("nil")
    /\ UNCHANGED <<pollEv, pollErr, mainVars, kernVars, tui, filterVars, uiVars, accepted, cliVars>>

\* case error (lines 143-145): m.err = msg; return m, tea.Quit
UpdateError ==
    /\ Running
    /\ pollPc = "send"
    /\ pollErr \notin {"", "nil"}
    /\ err' = pollErr
    /\ tui' = "quitting"
    /\ pollPc' = "stopped"
    /\ pulls' = pulls - 1 + PullsStarted("error")
    /\ UNCHANGED <<pollEv, pollErr, mainVars, kernVars, filterVars, input, entryLen, helpShowAll, events, ready, viewport, accepted, cliVars>>

\* case tea.WindowSizeMsg (lines 121-134)
UpdateWindowSize ==
    /\ Running
    /\ ~ready
    /\ ready' = TRUE
    /\ viewport' = NewViewport(ViewHeight)
    /\ pulls' = pulls + PullsStarted("resize")
    /\ UNCHANGED <<mainVars, kernVars, pollPc, pollEv, pollErr, tui, filterVars, input, entryLen, helpShowAll, err, events, accepted, cliVars>>

Keys == {"q", "ctrl+c", "/", "esc", "a", "b", "?", "enter"}
QuitKeys == {"q", "ctrl+c"}

\* the character a key types into a focused text input (<<>>: none)
KeyRune(k) ==
    CASE k = "a" -> <<97>>
      [] k = "b" -> <<98>>
      [] k = "?" -> <<QMark>>
      [] k = "/" -> <<47>>
      [] OTHER   -> <<>>

\* a text input that ignores what is typed
InputUpdateIgnores(value, k) == value

\* m.input.Update(msg) of the focused input
InputUpdate(value, k) == value \o KeyRune(k)

\* a Reset that keeps the draft
InputResetKeeps(value) == value

\* m.input.Reset()
InputReset(value) == <<>>

\* a Focus that empties the draft
InputFocusClears(value) == <<>>

\* m.input.Focus(): the value stays as it is
InputFocus(value) == value

\* a toggle that switches the flag on
ToggleOn(flag) == TRUE

\* m.showAll = !m.showAll, m.skipBinary = !m.skipBinary, m.help.ShowAll = !...
Toggle(flag) == ~flag

\* case tea.KeyMsg (lines 147-179)
UpdateKey(k) ==
    /\ Running
    /\ IF filtering
       THEN CASE k \in QuitKeys ->
                   \* lines 150-152: m.filtering = false; m.input.Blur()
                   /\ filtering' = FALSE
                   /\ entryLen' = 0
                   /\ viewport' = ViewportUpdate(viewport, k)
                   /\ UNCHANGED <<grepRegex, input, showAll, skipBinary, helpShowAll, tui>>
              [] k = "enter" ->
                   \* lines 153-156
                   /\ grepRegex' = Compile(input)
                   /\ filtering' = FALSE
                   /\ entryLen' = 0
                   /\ viewport' = ViewportUpdate(viewport, k)
                   /\ UNCHANGED <<input, showAll, skipBinary, helpShowAll, tui>>
              [] OTHER ->
                   \* lines 157-159
                   /\ Len(InputUpdate(input, k)) <= MaxDraft
                   /\ input' = InputUpdate(input, k)
                   /\ viewport' = ViewportUpdate(viewport, k)
                   /\ UNCHANGED <<grepRegex, filtering, entryLen, showAll, skipBinary, helpShowAll, tui>>
       ELSE CASE k \in QuitKeys ->
                   \* lines 163-164: return m, tea.Quit
                   /\ tui' = "quitting"
                   /\ UNCHANGED <<grepRegex, filtering, input, entryLen, showAll, skipBinary, helpShowAll, viewport>>
              [] k = "/" ->
                   /\ filtering' = TRUE
                   /\ input' = InputFocus(input)
                   /\ entryLen' = Len(input)
                   /\ UNCHANGED <<grepRegex, showAll, skipBinary, helpShowAll, tui, viewport>>
              [] k = "esc" ->
                   /\ input' = InputReset(input)
                   /\ grepRegex' = <<>>
                   /\ viewport' = ViewportUpdate(viewport, k)
                   /\ UNCHANGED <<filtering, entryLen, showAll, skipBinary, helpShowAll, tui>>
              [] k = "a" ->
                   /\ showAll' = Toggle(showAll)
                   /\ viewport' = ViewportUpdate(viewport, k)
                   /\ UNCHANGED <<grepRegex, filtering, input, entryLen, skipBinary, helpShowAll, tui>>
              [] k = "b" ->
                   /\ skipBinary' = Toggle(skipBinary)
                   /\ viewport' = ViewportUpdate(viewport, k)
                   /\ UNCHANGED <<grepRegex, filtering, input, entryLen, showAll, helpShowAll, tui>>
              [] k = "?" ->
                   /\ helpShowAll' = Toggle(helpShowAll)
                   /\ viewport' = ViewportUpdate(viewport, k)
                   /\ UNCHANGED <<grepRegex, filtering, input, entryLen, showAll, skipBinary, tui>>
              [] OTHER ->
                   /\ viewport' = ViewportUpdate(viewport, k)
                   /\ UNCHANGED <<grepRegex, filtering, input, entryLen, showAll, skipBinary, helpShowAll, tui>>
    /\ pulls' = pulls + PullsStarted("key")
    /\ UNCHANGED <<mainVars, kernVars, pollPc, pollEv, pollErr, fdFilter, err, events, ready, accepted, cliVars>>

\* a termination signal reaches the program: it quits like tea.Quit
TuiSignal ==
    /\ tui = "running"
    /\ exitCode = -1
    /\ tui' = "quitting"
    /\ UNCHANGED <<mainVars, kernVars, pollVars, filterVars, uiVars, accepted, cliVars>>

\* the quit message ends the event loop; p.Run() returns
EventLoopQuit ==
    /\ tui = "quitting"
    /\ exitCode = -1
    /\ tui' = "terminated"
    /\ UNCHANGED <<mainVars, kernVars, pollVars, filterVars, uiVars, accepted, cliVars>>

----------------------------------------------------------------------------
(* ---- the interactive system ---- *)

\* newTUIModel (lines 57-73) and the state before main runs
Init ==
    /\ mainPc = "load"
    /\ objs = "none" /\ objsCloses = 0
    /\ tp = "none" /\ tpCloses = 0
    /\ rd = "none"
    /\ exitCode = -1
    /\ target_pid = {}
    /\ ring = <<>>
    /\ nwrites = 0
    /\ dropped = {}
    /\ pollPc = "none" /\ pollEv = <<>> /\ pollErr = "" /\ pulls = 0
    /\ tui = "off"
    /\ showAll = TRUE
    /\ fdFilter = {}
    /\ skipBinary = TRUE
    /\ grepRegex = <<>>
    /\ filtering = FALSE
    /\ input = <<>>
    /\ entryLen = 0
    /\ helpShowAll = FALSE
    /\ err = ""
    /\ events = <<>>
    /\ ready = FALSE
    /\ viewport = ZeroViewport
    /\ accepted = <<>>
    /\ ctxDone = FALSE /\ done = FALSE /\ lost = 0 /\ fdsFlag = <<>>
    /\ suppressRepeats = FALSE /\ lastEvent = <<>> /\ lastDataStr = <<>>
    /\ repeatCount = 0 /\ out = <<>>

\* write calls the processes of the system make: [pid, fd, buf, count];
\* ok: the pages of buf can be read from the tracepoint
TuiCalls ==
    { [pid |-> TargetPID, fd |-> 1, buf |-> <<97>>, count |-> U64(1), ok |-> TRUE],
      [pid |-> TargetPID, fd |-> 3, buf |-> <<1>>, count |-> U64(1), ok |-> TRUE],
      [pid |-> OtherPID,  fd |-> 1, buf |-> <<98>>, count |-> U64(1), ok |-> TRUE] }

Main ==
    \E ok \in BOOLEAN :
        MainLoad(ok) \/ MainPut(ok) \/ MainAttach(ok) \/ MainNewReader(ok) \/ MainRun(ok)

\* the system under an environment that makes the write calls `calls`,
\* presses the keys `keys`, and whose reader produces `outcomes`, `faults`
NextOf(calls, keys, outcomes, faults) ==
    \/ Main
    \/ MainReturn
    \/ \E c \in calls : trace_write(c.pid, c.fd, c.buf, c.count, c.ok)
    \/ \E o \in outcomes, f \in faults : PollRead(o, f)
    \/ PollFdCheck
    \/ PollBinCheck
    \/ PollGrepCheck
    \/ UpdateEvent
    \/ UpdateNil
    \/ UpdateError
    \/ UpdateWindowSize
    \/ \E k \in keys : UpdateKey(k)
    \/ TuiSignal
    \/ EventLoopQuit

\* the event pipeline of the interactive consumer: records, reader faults,
\* the quit key and the two filter toggles
Next == NextOf(TuiCalls, {"q", "a", "b"}, {"record", "closed", "error"}, {"none", "short", "badlen"})

Spec == Init /\ [][Next]_vars

----------------------------------------------------------------------------
(* ---- the capture program under every kind of write call ---- *)

BigBuf == [i \in 1..(DataSize + 1) |-> 97]

KernelCalls ==
    { [pid |-> TargetPID, fd |-> 1, buf |-> <<>>, count |-> U64(0), ok |-> TRUE],
      [pid |-> TargetPID, fd |-> 1, buf |-> <<104, 105>>, count |-> U64(2), ok |-> TRUE],
      [pid |-> TargetPID, fd |-> 1, buf |-> <<104, 105>>, count |-> U64(2), ok |-> FALSE],
      [pid |-> TargetPID, fd |-> 2, buf |-> BigBuf, count |-> U64(DataSize + 1), ok |-> TRUE],
      [pid |-> TargetPID, fd |-> 2, buf |-> BigBuf, count |-> <<0, 1, 0, 5>>, ok |-> TRUE],
      [pid |-> TargetPID, fd |-> 3, buf |-> <<1, 2>>, count |-> U64Max, ok |-> FALSE],
      [pid |-> OtherPID,  fd |-> 1, buf |-> <<104, 105>>, count |-> U64(2), ok |-> TRUE] }

NextKernel == NextOf(KernelCalls, {"q"}, {"record", "closed", "error"}, {"none"})

SpecKernel == Init /\ [][NextKernel]_vars

----------------------------------------------------------------------------
(* ---- the non-interactive pipeline (perf-buffer variant of main) ---- *)

\* a PERF_RECORD_LOST entry of the reader: n samples were dropped
LostRecord(n) ==
    [pid |-> 0, fd |-> 0, data |-> <<>>, data_len |-> 0, size |-> 0, lost |-> n,
     seq |-> 0, req |-> U64(0), faulted |-> FALSE]

\* capture program, perf variant: bpf_perf_event_output instead of the
\* ring buffer; a full buffer counts the sample as lost and the
\* count is delivered in front of the next sample
trace_write_perf(pid, fd, buf, count, ok) ==
    /\ tp = "open"
    /\ exitCode = -1
    /\ nwrites < MaxWrites
    /\ nwrites' = nwrites + 1
    /\ IF ~Watching(pid) \/ rd # "open"
       THEN \* not watched, or no reader has opened the buffers: nothing is stored
            UNCHANGED <<ring, lost, dropped>>
       ELSE IF Len(ring) >= PerfCap
       THEN lost' = lost + 1 /\ dropped' = dropped \cup {nwrites + 1} /\ UNCHANGED ring
       ELSE /\ ring' = ring \o (IF lost > 0 THEN <<LostRecord(lost)>> ELSE <<>>)
                            \o <<BuildEvent(pid, fd, buf, count, ok)>>
            /\ lost' = 0
            /\ UNCHANGED dropped
    /\ UNCHANGED <<target_pid, mainVars, pollVars, tui, filterVars, uiVars, accepted,
                   ctxDone, done, repVars>>

\* lines 61-81: the descriptor filter the flags select
\* targetFDs: the numbers of the --fds list; all: the --all flag (default true)
ParseFlags(targetFDs, showStdout, showStderr, all) ==
    IF targetFDs # <<>>
    THEN [showAll |-> FALSE,
          fdFilter |-> {targetFDs[i] : i \in {j \in 1..Len(targetFDs) : targetFDs[j] > 0}}]
    ELSE [showAll |-> all /\ ~(showStdout \/ showStderr),
          fdFilter |-> (IF showStdout THEN {1} ELSE {}) \cup (IF showStderr THEN {2} ELSE {})]

FlagChoices ==
    { [fds |-> <<>>, stdout |-> FALSE, stderr |-> FALSE, all |-> TRUE],
      [fds |-> <<>>, stdout |-> TRUE, stderr |-> FALSE, all |-> TRUE],
      [fds |-> <<0, 3>>, stdout |-> FALSE, stderr |-> FALSE, all |-> TRUE] }

\* the state when main starts, for the command lines `flags`
InitCLIOf(flags) ==
    /\ mainPc = "load"
    /\ objs = "none" /\ objsCloses = 0
    /\ tp = "none" /\ tpCloses = 0
    /\ rd = "none"
    /\ exitCode = -1
    /\ target_pid = {}
    /\ ring = <<>>
    /\ nwrites = 0
    /\ dropped = {}
    /\ pollPc = "none" /\ pollEv = <<>> /\ pollErr = "" /\ pulls = 0
    /\ tui = "none"
    /\ \E f \in flags :
          /\ fdsFlag = f.fds
          /\ showAll = ParseFlags(f.fds, f.stdout, f.stderr, f.all).showAll
          /\ fdFilter = ParseFlags(f.fds, f.stdout, f.stderr, f.all).fdFilter
    /\ skipBinary \in BOOLEAN
    /\ suppressRepeats \in BOOLEAN
    /\ grepRegex = <<>>
    /\ filtering = FALSE
    /\ input = <<>>
    /\ entryLen = 0
    /\ helpShowAll = FALSE
    /\ err = ""
    /\ events = <<>>
    /\ ready = FALSE
    /\ viewport = ZeroViewport
    /\ accepted = <<>>
    /\ ctxDone = FALSE /\ done = FALSE /\ lost = 0
    /\ lastEvent = <<>> /\ lastDataStr = <<>>
    /\ repeatCount = 0 /\ out = <<>>

InitCLI == InitCLIOf(FlagChoices)

\* lines 122-143: signal.Notify, the banner, go func() { ... }()
CliStart ==
    /\ mainPc = "run"
    /\ pollPc = "none"
    /\ mainPc' = "waitsig"
    /\ pollPc' = "top"
    /\ UNCHANGED <<objs, objsCloses, tp, tpCloses, rd, exitCode, kernVars, pollEv, pollErr, pulls,
                   tui, filterVars, uiVars, accepted, cliVars>>

\* line 217: <-sig
CliSignal ==
    /\ mainPc = "waitsig"
    /\ mainPc' = "shutdown"
    /\ UNCHANGED <<objs, objsCloses, tp, tpCloses, rd, exitCode, kernVars, pollVars,
                   tui, filterVars, uiVars, accepted, cliVars>>

\* lines 218-223: cancel(); rd.Close()
CliShutdown ==
    /\ mainPc = "shutdown"
    /\ ctxDone' = TRUE
    /\ rd' = "closed"
    /\ mainPc' = "select"
    /\ UNCHANGED <<objs, objsCloses, tp, tpCloses, exitCode, kernVars, pollVars,
                   tui, filterVars, uiVars, accepted, done, lost, repVars>>

\* main returns: the deferred tp.Close(), objs.Close() and cancel() run
CliReturn ==
    /\ tp' = "closed"
    /\ tpCloses' = tpCloses + 1
    /\ objs' = "closed"
    /\ objsCloses' = objsCloses + 1
    /\ ctxDone' = TRUE
    /\ mainPc' = "exited"
    /\ exitCode' = 0

\* lines 225-227: case <-done
CliWaitDone ==
    /\ mainPc = "select"
    /\ done
    /\ CliReturn
    /\ UNCHANGED <<rd, kernVars, pollVars, tui, filterVars, uiVars, accepted, done, lost, repVars>>

\* a timer that never fires
TimeoutNever == FALSE /\ UNCHANGED vars

\* lines 228-230: case <-time.After(2 * time.Second)
CliTimeout ==
    /\ mainPc = "select"
    /\ CliReturn
    /\ UNCHANGED <<rd, kernVars, pollVars, tui, filterVars, uiVars, accepted, done, lost, repVars>>

\* lines 146-150: select { case <-ctx.Done(): return; default: ... },
\* with the deferred close(done)
TaskTop ==
    /\ pollPc = "top"
    /\ exitCode = -1
    /\ IF ctxDone
       THEN pollPc' = "stopped" /\ done' = TRUE
       ELSE pollPc' = "read" /\ UNCHANGED done
    /\ UNCHANGED <<mainVars, kernVars, pollEv, pollErr, pulls, tui, filterVars, uiVars, accepted,
                   ctxDone, lost, repVars>>

\* a report that hides the number of lost samples
OutLostZero(n) == [kind |-> "lost", pid |-> 0, fd |-> <<>>, text |-> Str(<<>>), n |-> 0, seq |-> 0]

\* the lines printed to standard output (seq: history, the write call shown)
OutLine(ev, dataStr) ==
    [kind |-> "line", pid |-> ev.PID, fd |-> fdString(ev.FD), text |-> dataStr, n |-> 0, seq |-> ev.seq]
OutRepeat(ev, n) ==
    [kind |-> "repeat", pid |-> ev.PID, fd |-> fdString(ev.FD), text |-> Str(<<>>), n |-> n, seq |-> ev.seq]
OutLost(n) == [kind |-> "lost", pid |-> 0, fd |-> <<>>, text |-> Str(<<>>), n |-> n, seq |-> 0]

\* lines 189-195: the event repeats the last displayed one
IsRepeat(ev, dataStr) ==
    /\ suppressRepeats
    /\ lastEvent # <<>>
    /\ lastEvent[1].FD = ev.FD
    /\ lastDataStr = <<dataStr>>

\* a loop that gives up after a failed read
AfterReadErrorReturn == "stopped"

\* lines 156-158: after the report and the sleep, `continue` leads to the
\* top of the loop
AfterReadError == "top"

\* lines 151-212: one rd.Read() and the handling of what it returns
TaskRead(outcome, fault) ==
    /\ pollPc = "read"
    /\ exitCode = -1
    /\ CASE outcome = "closed" ->
              \* perf.ErrClosed: return, close(done)
              /\ rd = "closed"
              /\ pollPc' = "stopped"
              /\ done' = TRUE
              /\ UNCHANGED <<ring, repVars, mainPc, exitCode>>
         [] outcome = "error" ->
              \* report, sleep 100 ms, continue
              /\ rd = "open"
              /\ pollPc' = AfterReadError
              /\ UNCHANGED <<ring, done, repVars, mainPc, exitCode>>
         [] outcome = "record" ->
              /\ rd = "open"
              /\ ring # <<>>
              /\ ring' = Tail(ring)
              /\ UNCHANGED <<done, fdsFlag, suppressRepeats>>
              /\ LET raw == IF Head(ring).lost # 0 THEN Head(ring) ELSE RawSample(Head(ring), fault) IN
                 IF raw.lost # 0
                 THEN \* lines 161-164
                      /\ out' = Append(out, OutLost(raw.lost))
                      /\ pollPc' = "top"
                      /\ UNCHANGED <<lastEvent, lastDataStr, repeatCount, mainPc, exitCode>>
                 ELSE IF raw.size < RecordSize
                 THEN \* lines 166-170
                      /\ pollPc' = "top"
                      /\ UNCHANGED <<lastEvent, lastDataStr, repeatCount, out, mainPc, exitCode>>
                 ELSE IF ~PassFd([FD |-> BinaryRead(RawBytes(raw)).FD], showAll, fdFilter)
                 THEN \* lines 172-175
                      /\ pollPc' = "top"
                      /\ UNCHANGED <<lastEvent, lastDataStr, repeatCount, out, mainPc, exitCode>>
                 ELSE IF raw.data_len > DataSize
                 THEN \* line 181: slice bounds out of range, the process panics
                      /\ pollPc' = "stopped"
                      /\ mainPc' = "exited"
                      /\ exitCode' = 2
                      /\ UNCHANGED <<lastEvent, lastDataStr, repeatCount, out>>
                 ELSE LET ev == DecodeEvent(raw)
                          dataStr == formatData(ev.Payload)
                      IN /\ pollPc' = "top"
                         /\ UNCHANGED <<mainPc, exitCode>>
                         /\ IF skipBinary /\ ~isPrintable(ev.Payload)
                            THEN UNCHANGED <<lastEvent, lastDataStr, repeatCount, out>>
                            ELSE IF IsRepeat(ev, dataStr)
                            THEN /\ repeatCount' = repeatCount + 1
                                 /\ UNCHANGED <<lastEvent, lastDataStr, out>>
                            ELSE /\ out' = out \o (IF repeatCount > 0
                                                   THEN <<OutRepeat(lastEvent[1], repeatCount)>>
                                                   ELSE <<>>)
                                               \o <<OutLine(ev, dataStr)>>
                                 /\ repeatCount' = 0
                                 /\ lastEvent' = <<ev>>
                                 /\ lastDataStr' = <<dataStr>>
    /\ UNCHANGED <<objs, objsCloses, tp, tpCloses, rd, target_pid, nwrites, dropped, pollEv, pollErr, pulls,
                   tui, filterVars, uiVars, accepted, ctxDone, lost>>

MainCLI ==
    \E ok \in BOOLEAN :
        MainLoad(ok) \/ MainPut(ok) \/ MainAttach(ok) \/ MainNewReader(ok)

CliCalls ==
    { [pid |-> TargetPID, fd |-> 1, buf |-> <<97>>, count |-> U64(1), ok |-> TRUE],
      [pid |-> TargetPID, fd |-> 3, buf |-> <<1>>, count |-> U64(1), ok |-> TRUE],
      [pid |-> OtherPID,  fd |-> 1, buf |-> <<98>>, count |-> U64(1), ok |-> TRUE] }

\* the non-interactive program under an environment that makes the write
\* calls `calls` and whose reader hands over samples with the faults `faults`
NextCLIOf(calls, faults) ==
    \/ MainCLI
    \/ CliStart
    \/ CliSignal
    \/ CliShutdown
    \/ CliWaitDone
    \/ CliTimeout
    \/ \E c \in calls : trace_write_perf(c.pid, c.fd, c.buf, c.count, c.ok)
    \/ TaskTop
    \/ \E o \in {"record", "closed", "error"}, f \in faults : TaskRead(o, f)

NextCLI == NextCLIOf(CliCalls, {"none", "short", "badlen"})

SpecCLI == InitCLI /\ [][NextCLI]_vars

\* func main runs: a goroutine that can take a step of main's eventually
\* takes it, and the runtime's timer fires; nothing is assumed of the
\* pulling task, which may stay blocked
MainFair ==
    /\ WF_vars(CliShutdown)
    /\ WF_vars(CliWaitDone)
    /\ WF_vars(CliTimeout)

SpecCLIFair == SpecCLI /\ MainFair

----------------------------------------------------------------------------
(* ---- the descriptor filter of the non-interactive pipeline ---- *)

\* no flag; --stdout --stderr; --fds=1,2; --all=false
FdFlagChoices ==
    { [fds |-> <<>>, stdout |-> FALSE, stderr |-> FALSE, all |-> TRUE],
      [fds |-> <<>>, stdout |-> TRUE, stderr |-> TRUE, all |-> TRUE],
      [fds |-> <<1, 2>>, stdout |-> FALSE, stderr |-> FALSE, all |-> TRUE],
      [fds |-> <<>>, stdout |-> FALSE, stderr |-> FALSE, all |-> FALSE] }

\* text and binary writes to the descriptors 1, 2 and 5
FdCalls ==
    { [pid |-> TargetPID, fd |-> fd, buf |-> b, count |-> U64(1), ok |-> TRUE] :
        fd \in {1, 2, 5}, b \in {<<97>>, <<1>>} }

InitFd == InitCLIOf(FdFlagChoices)

NextFd == NextCLIOf(FdCalls, {"none"})

SpecFd == InitFd /\ [][NextFd]_vars

----------------------------------------------------------------------------
(* ---- one write of every kind of payload through the interactive ---- *)
(* ---- pipeline: capture, decode, classify, format                 ---- *)

\* a buffer of 240 distinct-looking non-null bytes
Pattern == [i \in 1..DataSize |-> ((i * 37) % 255) + 1]

\* null, a control byte, tab, newline, carriage return, backslash, 'a'
SmallBytes == {0, 1, 9, 10, 13, 92, 97}

\* every buffer of at most MaxText bytes over SmallBytes
SmallBufs == UNION {[1..n -> SmallBytes] : n \in 0..MaxText}

\* len bytes of which the first p are 'a' and the others 0x01
Mixed(len, p) == [i \in 1..len |-> IF i <= p THEN 97 ELSE 1]

\* buffers around the 90% threshold: <<length, printable bytes>>
RatioBufs ==
    {Mixed(lp[1], lp[2]) : lp \in {<<10, 8>>, <<10, 9>>, <<10, 10>>, <<11, 10>>, <<14, 13>>,
                                   <<20, 18>>, <<20, 19>>, <<40, 36>>, <<40, 37>>,
                                   <<240, 216>>, <<240, 217>>}}

PayloadCalls ==
    {[pid |-> TargetPID, fd |-> 1, buf |-> b, count |-> U64(Len(b)), ok |-> TRUE] :
        b \in SmallBufs \cup RatioBufs}
    \cup {[pid |-> TargetPID, fd |-> 3, buf |-> <<1, 2, 3, 4>>, count |-> U64(4), ok |-> TRUE]}
    \cup {[pid |-> TargetPID, fd |-> fd, buf |-> <<97>>, count |-> U64(1), ok |-> TRUE] : fd \in {0, 2}}
    \cup {[pid |-> TargetPID, fd |-> 258, buf |-> Pattern, count |-> U64(n), ok |-> TRUE] :
             n \in 0..DataSize}

\* the interactive program up and running, before the last write call of
\* the watched process; the operator may have pressed b
InitPayload ==
    /\ mainPc = "run"
    /\ objs = "open" /\ objsCloses = 0
    /\ tp = "open" /\ tpCloses = 0
    /\ rd = "open"
    /\ exitCode = -1
    /\ target_pid = {TargetPID}
    /\ ring = <<>>
    /\ nwrites = MaxWrites - 1
    /\ dropped = {}
    /\ pollPc = "read" /\ pollEv = <<>> /\ pollErr = "" /\ pulls = 1
    /\ tui = "running"
    /\ showAll = TRUE
    /\ fdFilter = {}
    /\ skipBinary \in BOOLEAN
    /\ grepRegex = <<>>
    /\ filtering = FALSE
    /\ input = <<>>
    /\ entryLen = 0
    /\ helpShowAll = FALSE
    /\ err = ""
    /\ events = <<>>
    /\ ready = FALSE
    /\ viewport = ZeroViewport
    /\ accepted = <<>>
    /\ ctxDone = FALSE /\ done = FALSE /\ lost = 0 /\ fdsFlag = <<>>
    /\ suppressRepeats = FALSE /\ lastEvent = <<>> /\ lastDataStr = <<>>
    /\ repeatCount = 0 /\ out = <<>>

NextPayload ==
    \/ \E c \in PayloadCalls : trace_write(c.pid, c.fd, c.buf, c.count, c.ok)
    \/ PollRead("record", "none")
    \/ PollFdCheck
    \/ PollBinCheck
    \/ PollGrepCheck
    \/ UpdateEvent

SpecPayload == InitPayload /\ [][NextPayload]_vars

----------------------------------------------------------------------------
(* ---- the keyboard of the interactive consumer, with one write call ---- *)

\* 'a'; 'b'; 'b', null, 'a'
KeyCalls ==
    {[pid |-> TargetPID, fd |-> 1, buf |-> b, count |-> U64(Len(b)), ok |-> TRUE] :
        b \in {<<97>>, <<98>>, <<98, 0, 97>>}}

\* the interactive program up and running (newTUIModel), before the last
\* write call of the watched process
InitKeys == InitPayload /\ skipBinary

NextKeys ==
    \/ \E c \in KeyCalls : trace_write(c.pid, c.fd, c.buf, c.count, c.ok)
    \/ PollRead("record", "none")
    \/ PollFdCheck
    \/ PollBinCheck
    \/ PollGrepCheck
    \/ UpdateEvent
    \/ \E k \in Keys : UpdateKey(k)

SpecKeys == InitKeys /\ [][NextKeys]_vars

----------------------------------------------------------------------------
(* ---- the interactive consumer until it terminates ---- *)

\* records, reader faults that do not abort the process, both quit keys
\* and filter entry
NextQuit == NextOf(TuiCalls, {"q", "ctrl+c", "/"}, {"record", "closed", "error"}, {"none", "short"})

\* the event loop of p.Run() handles a queued quit message
SpecQuit == Init /\ [][NextQuit]_vars /\ WF_vars(EventLoopQuit)

----------------------------------------------------------------------------
(* ---- every kind of message of the interactive consumer ---- *)

\* text writes of the watched process to descriptor 1
LineCalls == {[pid |-> TargetPID, fd |-> 1, buf |-> <<97>>, count |-> U64(1), ok |-> TRUE]}

\* records, reader faults, the resize, and the keys that change or clear
\* the regex and the two flags
NextLines == NextOf(LineCalls, {"/", "b", "enter", "esc", "a"}, {"record", "closed", "error"}, {"none"})

SpecLines == Init /\ [][NextLines]_vars

----------------------------------------------------------------------------
(* ---- both variants of the program, with records of a bad length ---- *)

\* the interactive program, or the non-interactive one with its flags
InitVariants == Init \/ InitCLI

\* each variant runs its own capture program, pulling task and main
NextVariants ==
    \/ tui # "none" /\ NextOf(TuiCalls, {"q"}, {"record", "closed", "error"}, {"none", "badlen"})
    \/ tui = "none" /\ NextCLIOf(CliCalls, {"none", "badlen"})

SpecVariants == InitVariants /\ [][NextVariants]_vars

----------------------------------------------------------------------------
(* ---- properties of the interactive consumer ---- *)

\* the Events whose message the consumer has handled
Handled ==
    IF pollPc = "send" /\ pollErr = "" THEN SubSeq(accepted, 1, Len(accepted) - 1)
    ELSE accepted

\* C1: the line list is exactly the display lines of the accepted records,
\* one line per record, in the order the records were committed to the channel
C1_LinesAreAcceptedRecordsInOrder ==
    /\ Len(events) = Len(Handled)
    /\ \A i \in 1..Len(events) :
          /\ events[i].seq = Handled[i].seq
          /\ events[i].pid = Handled[i].PID
          /\ events[i].fd = fdString(Handled[i].FD)
          /\ events[i].text = formatData(Handled[i].Payload)
    /\ \A i, j \in 1..Len(events) : i < j => events[i].seq < events[j].seq

\* two records displayed, with a resize and a filter keystroke in between
C1_Witness == Len(events) = 2 /\ ready /\ ~skipBinary

\* C2: a record shorter than the fixed layout is skipped and does not end
\* the session of the interactive consumer
C2_MalformedRecordSkipped == err # "malformed"

\* C3: when the reader reports closed (or a read fails), the consumer
\* becomes Terminated: once the pull's result has been taken off the message
\* queue the consumer is no longer running
C3_ClosedTerminates ==
    (pollPc = "stopped" /\ pollErr \in {"nil", "readerr"}) => tui \in {"quitting", "terminated"}

\* C4: the pulling task never reads a filter field of the model that a key
\* handler writes at that moment: no step writes a field while the pulling
\* task stands at the test that reads it
C4_PullNeverReadsModel ==
    [][ /\ (showAll' # showAll) => pollPc # "fdcheck"
        /\ (skipBinary' # skipBinary) => pollPc # "bincheck"
        /\ (grepRegex' # grepRegex) => pollPc # "grepcheck" ]_vars

\* C5: a line is appended only for an event that passes the filters of the
\* Filter state as it is when the line is appended
C5_AppendedLinePassesCurrentFilter ==
    [][ (events' # events) =>
          /\ PassFd(pollEv[1], showAll, fdFilter)
          /\ PassBinary(pollEv[1], skipBinary)
          /\ PassRegex(pollEv[1], grepRegex) ]_vars

\* C6: after the operator quit (or a termination signal) the reader of the
\* transport channel is closed before the process is gone
C6_ReaderClosedAfterQuit ==
    (mainPc = "exited" /\ tui = "terminated") => rd = "closed"

\* C8: whenever the process has exited after the kernel objects were
\* loaded, the objects and the tracepoint link (once created) were each
\* released exactly once
C8_ReleasedExactlyOnce ==
    (mainPc = "exited" /\ objs # "none") =>
        /\ objsCloses = 1
        /\ (tp # "none" => tpCloses = 1)

----------------------------------------------------------------------------
(* ---- properties of the non-interactive pipeline ---- *)

\* C7: once the termination signal was received the process eventually
\* exits, whether or not the pulling task has signalled completion
C7_SignalLeadsToExit == (mainPc \in {"shutdown", "select"}) ~> (mainPc = "exited")

\* the process has exited through the timeout: the pulling task never
\* closed done
C7_Witness == mainPc = "exited" /\ exitCode = 0 /\ rd = "closed" /\ ~done

----------------------------------------------------------------------------
(* ---- properties of the capture program ---- *)

\* min(requested count, 240) of a 64-bit requested count
MinCount(req) ==
    IF req[1] = 0 /\ req[2] = 0 /\ req[3] = 0 /\ req[4] <= 240 THEN req[4] ELSE 240

\* C9: every published record has data_len = min(requested count, 240),
\* so data_len <= 240, and at most data_len bytes were copied into it
C9_DataLenIsClampedCount ==
    \A i \in 1..Len(ring) :
        /\ ring[i].data_len = MinCount(ring[i].req)
        /\ ring[i].data_len <= 240
        /\ Len(ring[i].data) <= ring[i].data_len

\* a record for a count above 2^32, one for count 0 behind it
C9_Witness ==
    /\ Len(ring) = 2
    /\ ring[1].req[2] > 0 /\ ring[1].data_len = 240 /\ Len(ring[1].data) = 240
    /\ ring[2].req = U64(0) /\ ring[2].data_len = 0

\* C10: a write of a process that is not in the Watch Set publishes
\* nothing: every record in the channel, every event pulled from it and every
\* displayed line carries a pid of the Watch Set
C10_OnlyWatchedPids ==
    /\ \A i \in 1..Len(ring) : ring[i].pid \in target_pid
    /\ \A i \in 1..Len(pollEv) : pollEv[i].PID \in target_pid
    /\ \A i \in 1..Len(events) : events[i].pid \in target_pid

\* both write calls were made, one by an unwatched process, and only
\* the watched one left a record
C10_Witness == nwrites = 2 /\ Len(ring) = 1 /\ ring[1].seq = 1 /\ events = <<>> /\ pollEv = <<>>

\* the ghost numbers of the records that are in the channel, being filtered,
\* accepted or displayed
DeliveredSeqs ==
    {ring[i].seq : i \in 1..Len(ring)} \cup {pollEv[i].seq : i \in 1..Len(pollEv)}
    \cup {accepted[i].seq : i \in 1..Len(accepted)} \cup {events[i].seq : i \in 1..Len(events)}

\* C11: a write that finds the channel full completes in one step that
\* leaves the channel as it was (nothing overwritten, nothing reordered), and
\* a record dropped that way is never in the channel or delivered afterwards
C11_FullChannelDropsRecord ==
    /\ [](dropped \cap DeliveredSeqs = {})
    /\ [][ (nwrites' # nwrites /\ Len(ring) = RingCap) =>
              /\ ring' = ring
              /\ nwrites' = nwrites + 1
              /\ mainPc' = mainPc /\ exitCode' = exitCode ]_vars

\* the channel still holds the first records, the write after them was
\* dropped, and a later pull has delivered the oldest record
C11_Witness ==
    /\ dropped = {RingCap + 1}
    /\ Len(ring) = RingCap - 1 /\ ring[1].seq = 2
    /\ Len(events) = 1 /\ events[1].seq = 1

\* C12: when the copy from the caller's buffer fails the capture program
\* still publishes: wherever it can run for a watched write and the channel
\* has room, the run whose copy fails adds a record with data_len = clamped
\* count, and every such record in the channel has that data_len and a
\* zeroed data array
C12_FailedCopyStillPublishes ==
    /\ \A i \in 1..Len(ring) :
          ring[i].faulted => /\ ring[i].data_len = MinCount(ring[i].req)
                             /\ ring[i].data = <<>>
    /\ \A c \in KernelCalls :
          ( /\ tp = "open" /\ exitCode = -1 /\ nwrites < MaxWrites
            /\ Watching(c.pid) /\ Len(ring) < RingCap
            /\ U64Gt(c.count, 0) /\ ~c.ok )
          => ENABLED ( /\ trace_write(c.pid, c.fd, c.buf, c.count, c.ok)
                       /\ Len(ring') = Len(ring) + 1
                       /\ ring'[Len(ring')].faulted
                       /\ ring'[Len(ring')].data_len = MinCount(c.count) )

\* two records of failed copies in the channel: a 2-byte write and a write
\* of 2^64 - 1 bytes
C12_Witness ==
    /\ Len(ring) = 2
    /\ ring[1].faulted /\ ring[1].data_len = 2
    /\ ring[2].faulted /\ ring[2].data_len = 240 /\ ring[2].req = U64Max

----------------------------------------------------------------------------
(* ---- properties of decoding, classification and formatting ---- *)

\* C13: decoding the 252-byte little-endian image of a record with
\* data_len = N yields an Event with the record's pid and fd and a payload of
\* exactly N bytes, the first N bytes of the data array
C13_DecodeRoundTrip ==
    [][ (pollPc = "read" /\ pollPc' = "fdcheck") =>
          LET rec == Head(ring)
              ev == pollEv'[1]
          IN /\ Len(RawBytes(rec)) = 252
             /\ ev.PID = rec.pid
             /\ ev.FD = rec.fd
             /\ Len(ev.Payload) = rec.data_len
             /\ \A i \in 1..rec.data_len :
                   ev.Payload[i] = IF i <= Len(rec.data) THEN rec.data[i] ELSE 0 ]_vars

\* a record with data_len = 239 was decoded: pid and fd of several bytes,
\* 239 payload bytes
C13_Witness ==
    /\ pollPc = "fdcheck"
    /\ pollEv[1].PID = TargetPID /\ pollEv[1].FD = 258
    /\ pollEv[1].Payload = SubSeq(Pattern, 1, 239)

\* C14: the descriptor filter is a set-membership gate. A record whose fd
\* fails (showAll false and fd not in the allow-list) leaves the output as it
\* was; one whose fd passes is handed to the next test, whatever its payload;
\* with showAll true every fd passes under every allow-list
C14_DescriptorGate ==
    /\ [](\A fd \in {1, 2, 5}, allow \in SUBSET {1, 2, 5} :
            LET ev == [PID |-> TargetPID, FD |-> fd, Payload |-> <<>>, seq |-> 0]
            IN /\ PassFd(ev, TRUE, allow)
               /\ PassFd(ev, FALSE, allow) <=> fd \in allow)
    /\ [][ (pollPc = "read" /\ pollPc' = "top" /\ ring # <<>> /\ ring' = Tail(ring)
            /\ Head(ring).lost = 0) =>
              LET rec == Head(ring)
                  ev == DecodeEvent(rec)
                  pass == showAll \/ rec.fd \in fdFilter
                  shown == out' # out \/ repeatCount' # repeatCount
              IN /\ ~pass => UNCHANGED repVars
                 /\ shown <=> (pass /\ ~(skipBinary /\ ~isPrintable(ev.Payload))) ]_vars

\* allow-list {1,2}, showAll false: a write to fd 1 and one to fd 2 were
\* printed, the write to fd 5 in between was not
C14_Witness ==
    /\ ~showAll /\ fdFilter = {1, 2}
    /\ ~skipBinary /\ ~suppressRepeats
    /\ nwrites = 3 /\ ring = <<>> /\ dropped = {} /\ pollPc = "top"
    /\ Len(out) = 2
    /\ out[1].fd = <<"stdout">> /\ out[1].seq = 1
    /\ out[2].fd = <<"stderr">> /\ out[2].seq = 3

\* the bytes that count as text: printable characters, tab, newline and
\* carriage return
TextBytes == (32..126) \cup {9, 10, 13} \cup ((161..255) \ {173})

\* the number of text bytes of a payload
TextCount(data) == Cardinality({i \in 1..Len(data) : data[i] \in TextBytes})

C16_NinetyPercentIsText ==
    [][ ( /\ pollPc = "bincheck" /\ Len(pollEv[1].Payload) > 0
          /\ 10 * TextCount(pollEv[1].Payload) >= 9 * Len(pollEv[1].Payload) )
        => pollPc' = "grepcheck" ]_vars

\* C17: with skipBinary set an event whose payload classifies as binary is
\* dropped by the binary test and adds no line; with skipBinary clear every
\* displayed event with such a payload is shown as a hex dump
C17_BinarySkippedOrHexDump ==
    /\ [][ (pollPc = "bincheck" /\ skipBinary /\ ~isPrintable(pollEv[1].Payload)) =>
              (pollPc' = "read" /\ pollEv' = <<>> /\ events' = events) ]_vars
    /\ [](\A i \in 1..Len(events) :
            ~isPrintable(Handled[i].Payload) => events[i].text.kind = "hexdump")

\* C18: a non-empty payload is rendered as text exactly when the 90% rule
\* classifies it as text, and as a hex dump exactly when it classifies it as
\* binary
C18_FormatAgreesWithClassification ==
    \A i \in 1..Len(events) :
        Len(Handled[i].Payload) > 0 =>
            /\ events[i].text.kind = "str" <=> isPrintable(Handled[i].Payload)
            /\ events[i].text.kind = "hexdump" <=> ~isPrintable(Handled[i].Payload)

\* C19: an event with a payload of length 0 gets through the binary test
\* under every setting of skipBinary, and its line is the marker "<empty>"
C19_EmptyPayloadMarker ==
    /\ [][ (pollPc = "bincheck" /\ Len(pollEv[1].Payload) = 0) => pollPc' = "grepcheck" ]_vars
    /\ [](\A i \in 1..Len(events) :
            Len(Handled[i].Payload) = 0 =>
                /\ events[i].text.kind = "str"
                /\ events[i].text.bytes = <<60, 101, 109, 112, 116, 121, 62>>)

\* with skipBinary set, the line of a zero-length write is displayed
C19_Witness ==
    /\ skipBinary
    /\ Len(events) = 1 /\ Handled[1].Payload = <<>>
    /\ events[1].text.bytes = <<60, 101, 109, 112, 116, 121, 62>>

\* the payload up to its first null byte
CutAtNull(data) ==
    SubSeq(data, 1, Cardinality({j \in 1..Len(data) : \A i \in 1..j : data[i] # 0}))

\* every byte in order, \n \r \t as backslash + letter
RECURSIVE Rendered(_)
Rendered(s) ==
    IF s = <<>> THEN <<>>
    ELSE (CASE Head(s) = 10 -> <<92, 110>>
            [] Head(s) = 13 -> <<92, 114>>
            [] Head(s) = 9  -> <<92, 116>>
            [] OTHER -> <<Head(s)>>) \o Rendered(Tail(s))

\* C20: the text shown for a non-empty payload is the payload cut at its
\* first null byte with \n, \r, \t escaped and every other byte, a
\* backslash included, unaltered and in order
C20_TextIsCutAndEscaped ==
    \A i \in 1..Len(events) :
        (events[i].text.kind = "str" /\ Len(Handled[i].Payload) > 0) =>
            events[i].text.bytes = Rendered(CutAtNull(Handled[i].Payload))

\* newline, backslash, null, 'a' was displayed as backslash n backslash
C20_Witness ==
    /\ Len(events) = 1
    /\ Handled[1].Payload = <<10, 92, 0>>
    /\ events[1].text = Str(<<92, 110, 92>>)

\* C21: a hex-dump line of a payload of at most 32 bytes dumps all its
\* bytes and has no annotation; of a longer payload it dumps the first 32
\* bytes and is annotated with the payload's length
C21_HexDumpFirst32 ==
    \A i \in 1..Len(events) :
        events[i].text.kind = "hexdump" =>
            LET data == Handled[i].Payload
            IN IF Len(data) <= 32
               THEN events[i].text.bytes = data /\ events[i].text.total = <<>>
               ELSE /\ events[i].text.bytes = SubSeq(data, 1, 32)
                    /\ events[i].text.total = <<Len(data)>>

\* a binary payload of 33 bytes is on display: 32 bytes dumped, "33 bytes total"
C21_Witness ==
    /\ Len(events) = 1
    /\ Handled[1].Payload = SubSeq(Pattern, 1, 33)
    /\ events[1].text.kind = "hexdump"
    /\ Len(events[1].text.bytes) = 32 /\ events[1].text.total = <<33>>

----------------------------------------------------------------------------
(* ---- properties of the key handlers and the regex gate ---- *)

\* C22: the regex test lets an event through if and only if no pattern is
\* active or the active pattern matches the whole payload, the bytes after a
\* null byte included
C22_RegexGateOnRawPayload ==
    [][ (pollPc = "grepcheck" /\ pollPc' # "grepcheck") =>
          ( pollPc' = "send" <=>
              (grepRegex = <<>> \/ Match(grepRegex, pollEv[1].Payload)) ) ]_vars

\* with the pattern a active, the payload 'b', null, 'a' was accepted and
\* is displayed as b
C22_Witness ==
    /\ grepRegex = <<(<<97>>)>>
    /\ Len(events) = 1
    /\ Handled[1].Payload = <<98, 0, 97>>
    /\ events[1].text = Str(<<98>>)

----------------------------------------------------------------------------
(* ---- properties of repeat suppression and of lost samples ---- *)

\* the pulling task takes a sample (not a lost-samples record) off the buffer
TaskTakesSample ==
    /\ pollPc = "read" /\ pollPc' = "top"
    /\ ring # <<>> /\ ring' = Tail(ring)
    /\ Head(ring).lost = 0

\* C23: with repeat suppression on, an event that passed the filters is
\* collapsed (nothing printed, counter + 1) if and only if its descriptor and
\* its formatted line are those of the line printed last
C23_CollapseOnlyConsecutive ==
    [][ ( /\ TaskTakesSample
          /\ suppressRepeats
          /\ PassFd(DecodeEvent(Head(ring)), showAll, fdFilter)
          /\ PassBinary(DecodeEvent(Head(ring)), skipBinary) )
        => LET ev == DecodeEvent(Head(ring))
           IN (out' = out /\ repeatCount' = repeatCount + 1)
              <=> ( /\ out # <<>>
                    /\ out[Len(out)].fd = fdString(ev.FD)
                    /\ out[Len(out)].text = formatData(ev.Payload) ) ]_vars

\* C24: when the pipeline has stopped, no run of collapsed repeats is left
\* without its summary line
C24_RepeatsReportedAtEnd ==
    (pollPc = "stopped" \/ mainPc = "exited") => repeatCount = 0

\* the counts of the lost-samples records waiting in the buffer
RECURSIVE LostSum(_)
LostSum(lines) ==
    IF lines = <<>> THEN 0
    ELSE (IF Head(lines).kind = "lost" THEN Head(lines).n ELSE 0) + LostSum(Tail(lines))

RECURSIVE LostPending(_)
LostPending(r) == IF r = <<>> THEN 0 ELSE Head(r).lost + LostPending(Tail(r))

KeyFrame == <<fdFilter, events, err, ready, mainVars, kernVars, pollVars, accepted>>

\* C26: in Filtering the cancel-entry key (q, ctrl+c) leads to Normal,
\* leaves the active regex as it was and leaves the draft as it was when
\* filter entry began
C26_CancelDiscardsDraft ==
    (Running /\ filtering) =>
        \A k \in QuitKeys :
            ENABLED ( /\ UpdateKey(k)
                      /\ ~filtering'
                      /\ grepRegex' = grepRegex
                      /\ input' = SubSeq(input, 1, entryLen) )

\* C27: in Filtering the confirm key leads to Normal with the compiled draft
\* as active regex, or with no active regex if the draft is not a valid
\* pattern; the session goes on
C27_ConfirmCompilesDraft ==
    (Running /\ filtering) =>
        ENABLED ( /\ UpdateKey("enter")
                  /\ ~filtering'
                  /\ grepRegex' = IF ValidPattern(input) THEN <<input>> ELSE <<>>
                  /\ tui' = tui /\ showAll' = showAll /\ skipBinary' = skipBinary
                  /\ UNCHANGED KeyFrame )

\* a pattern is active, the draft ? is not a valid pattern, and the confirm
\* key drops the active pattern
C27_Witness ==
    /\ tui = "running" /\ filtering
    /\ grepRegex # <<>>
    /\ input = <<QMark>>
    /\ ENABLED (UpdateKey("enter") /\ grepRegex' = <<>> /\ ~filtering' /\ tui' = "running")

\* C28: in Normal the clear-filter key (esc) leaves the consumer in Normal
\* with no active regex and an empty draft and changes nothing else; pressed
\* where the filter is already clear it changes nothing at all
C28_ClearFilter ==
    (Running /\ ~filtering) =>
        /\ ENABLED ( /\ UpdateKey("esc")
                      /\ ~filtering' /\ grepRegex' = <<>> /\ input' = <<>>
                      /\ tui' = tui /\ showAll' = showAll /\ skipBinary' = skipBinary
                      /\ UNCHANGED KeyFrame )
        /\ (grepRegex = <<>> /\ input = <<>>) => ENABLED (UpdateKey("esc") /\ UNCHANGED vars)

\* Normal, a pattern is active and its text is in the draft, a line is
\* displayed: esc clears both
C28_Witness ==
    /\ tui = "running" /\ ~filtering
    /\ grepRegex = <<(<<97>>)>> /\ input = <<97>>
    /\ Len(events) = 1
    /\ ENABLED (UpdateKey("esc") /\ grepRegex' = <<>> /\ input' = <<>> /\ events' = events)

\* C29: the consumer starts in Normal with showAll and skipBinary set and
\* no active regex; in Normal the key a negates showAll and the key b
\* negates skipBinary, each changing nothing else
C29_Toggles ==
    /\ (showAll = TRUE /\ skipBinary = TRUE /\ grepRegex = <<>> /\ filtering = FALSE)
    /\ []( (Running /\ ~filtering) =>
            /\ ENABLED ( /\ UpdateKey("a")
                          /\ showAll' = ~showAll
                          /\ UNCHANGED <<skipBinary, grepRegex, filtering, input, tui, KeyFrame>> )
            /\ ENABLED ( /\ UpdateKey("b")
                          /\ skipBinary' = ~skipBinary
                          /\ UNCHANGED <<showAll, grepRegex, filtering, input, tui, KeyFrame>> ) )

\* both flags were switched off and showAll was switched on again, with a
\* line on display
C29_Witness ==
    /\ tui = "running" /\ ~filtering
    /\ showAll /\ ~skipBinary
    /\ Len(events) = 1 /\ Handled[1].Payload = <<98, 0, 97>>

\* C30: in Normal the filter-entry key (/) leads to Filtering and changes
\* nothing else; the active regex changes only when a draft is confirmed or
\* the filter is cleared
C30_FilterEntry ==
    /\ []( (Running /\ ~filtering) =>
            ENABLED ( /\ UpdateKey("/")
                      /\ filtering'
                      /\ UNCHANGED <<grepRegex, showAll, skipBinary, input, tui, KeyFrame>> ) )
    /\ [][ grepRegex' # grepRegex =>
              \/ (filtering /\ ~filtering')
              \/ (~filtering /\ ~filtering' /\ grepRegex' = <<>>) ]_vars

\* in Filtering, with the pattern a still active, the pulling task tests an
\* event against it
C30_Witness ==
    /\ tui = "running" /\ filtering /\ entryLen = 1
    /\ grepRegex = <<(<<97>>)>>
    /\ pollPc = "grepcheck" /\ pollEv[1].Payload = <<98>>
    /\ ENABLED (PollGrepCheck /\ pollPc' = "read")

----------------------------------------------------------------------------
(* ---- termination, scrolling and the life of the line list ---- *)

\* C31: in Normal the quit keys q and ctrl+c make the consumer quit, a
\* quitting consumer (after a quit key or a termination signal) becomes
\* Terminated, Terminated is final, and once Terminated no line is appended
C31_QuitTerminates ==
    /\ [](tui = "running" /\ exitCode = -1 /\ ~filtering =>
            \A k \in QuitKeys : ENABLED (UpdateKey(k) /\ tui' = "quitting"))
    /\ [][TuiSignal => tui' = "quitting"]_vars
    /\ ((tui = "quitting") ~> (tui = "terminated"))
    /\ [][tui = "terminated" => tui' = "terminated" /\ events' = events]_vars

\* the consumer has terminated with a line displayed while an accepted
\* event was still waiting to be handled
C31_Witness ==
    tui = "terminated" /\ err = "" /\ Len(events) = 1 /\ pollPc = "send" /\ pollErr = ""

\* C32: appending an accepted event scrolls the view to the newest line
\* when the view was at the bottom, and leaves the scroll position alone
\* when the operator had scrolled up
C32_ScrollFollowsUnlessScrolledAway ==
    [][events' # events =>
          IF AtBottom(viewport) THEN AtBottom(viewport')
          ELSE viewport'.YOffset = viewport.YOffset]_vars

----------------------------------------------------------------------------
(* ---- the --fds flag ---- *)

\* C33: with an explicit descriptor list showAll is false and the
\* allow-list holds exactly the non-negative numbers of the list,
\* descriptor 0 included
C33_ExplicitListIsAllowList ==
    fdsFlag # <<>> =>
        /\ ~showAll
        /\ fdFilter = {fdsFlag[i] : i \in {j \in 1..Len(fdsFlag) : fdsFlag[j] >= 0}}

----------------------------------------------------------------------------
(* ---- one text write, from the write call to the displayed line ---- *)

\* a non-empty payload of printable characters only (no newline, tab, null)
PureText(data) == data # <<>> /\ \A i \in 1..Len(data) : IsPrint(data[i])

\* the write calls of purely printable text to descriptor 1
StdoutTextCalls == {c \in PayloadCalls : c.fd = 1 /\ PureText(c.buf)}

\* the event in the hands of the pulling task is such a write
StdoutTextInHand == pollEv # <<>> /\ pollEv[1].FD = 1 /\ PureText(pollEv[1].Payload)

\* the name the display gives a descriptor
FdName(fd) ==
    IF fd = 0 THEN <<"stdin">> ELSE IF fd = 1 THEN <<"stdout">>
    ELSE IF fd = 2 THEN <<"stderr">> ELSE <<"fd", fd>>

\* C34: with showAll and skipBinary set, a write of purely printable text
\* to descriptor 1 by the watched process is committed with its bytes, is
\* decoded to an event with the same bytes, passes the three filter tests
\* and is appended as exactly one line that carries the writer's pid, the
\* name stdout and the text unchanged; every line names its descriptor
\* stdin, stdout, stderr or fd n
C34_TextWriteDisplayedOnce ==
    /\ [](showAll /\ skipBinary /\ nwrites < MaxWrites /\ Len(ring) < RingCap =>
            \A c \in StdoutTextCalls :
                ENABLED (/\ trace_write(c.pid, c.fd, c.buf, c.count, c.ok)
                         /\ Len(ring') = Len(ring) + 1
                         /\ ring'[Len(ring')].pid = c.pid
                         /\ ring'[Len(ring')].fd = 1
                         /\ ring'[Len(ring')].data = c.buf
                         /\ ring'[Len(ring')].data_len = Len(c.buf)))
    /\ [][(showAll /\ skipBinary /\ pollPc = "read" /\ pollPc' # "read" /\ ring # <<>>
            /\ Head(ring).fd = 1 /\ PureText(Head(ring).data)
            /\ Head(ring).data_len = Len(Head(ring).data)) =>
              /\ pollPc' = "fdcheck"
              /\ pollEv'[1].PID = Head(ring).pid
              /\ pollEv'[1].FD = 1
              /\ pollEv'[1].Payload = Head(ring).data]_vars
    /\ [][(showAll /\ skipBinary /\ StdoutTextInHand /\ pollPc' # pollPc) =>
              /\ pollPc \in {"fdcheck", "bincheck", "grepcheck"} => pollEv' = pollEv
              /\ pollPc = "fdcheck" => pollPc' = "bincheck"
              /\ pollPc = "bincheck" => pollPc' = "grepcheck"
              /\ pollPc = "grepcheck" => pollPc' = "send"
              /\ pollPc = "send" =>
                    /\ pollEv' = <<>>
                    /\ Len(events') = Len(events) + 1
                    /\ SubSeq(events', 1, Len(events)) = events
                    /\ events'[Len(events')].pid = pollEv[1].PID
                    /\ events'[Len(events')].fd = <<"stdout">>
                    /\ events'[Len(events')].text = Str(pollEv[1].Payload)]_vars
    /\ [][events' # events => events'[Len(events')].fd = FdName(pollEv[1].FD)]_vars

\* the text a\a written to descriptor 1 is displayed as the only line
C34_Witness ==
    /\ showAll /\ skipBinary
    /\ events = <<[pid |-> TargetPID, fd |-> <<"stdout">>, text |-> Str(<<97, 92, 97>>), seq |-> MaxWrites]>>
    /\ ring = <<>> /\ pollEv = <<>>

----------------------------------------------------------------------------
(* ---- the pulls of the interactive consumer ---- *)

\* C35: at most one pull is outstanding or delivered and not yet handled;
\* while the process lives it is the one the pulling task works on; a pull
\* is added only when the program starts, and the pulling task starts a new
\* read only then and after the consumer handled an Event message
C35_OnePullAtATime ==
    /\ [](pulls <= 1)
    /\ [](tui # "off" /\ exitCode = -1 =>
            pulls = IF pollPc \in {"read", "fdcheck", "bincheck", "grepcheck", "send"} THEN 1 ELSE 0)
    /\ [][pulls' > pulls => tui = "off" /\ tui' = "running"]_vars
    /\ [][(pollPc' = "read" /\ pollPc \in {"none", "send", "stopped"}) =>
              \/ tui = "off" /\ tui' = "running"
              \/ pollPc = "send" /\ pollErr = "" /\ Len(events') = Len(events) + 1]_vars

\* keys and a resize were handled while the pull that followed the first
\* Event message is delivered and waits to be handled
C35_Witness ==
    pulls = 1 /\ pollPc = "send" /\ pollErr = "" /\ Len(events) = 1 /\ ready /\ ~skipBinary /\ ~showAll

----------------------------------------------------------------------------
(* ---- the empty allow-list of the interactive consumer ---- *)

\* the write calls whose line is displayed
LineSeqs == {events[i].seq : i \in 1..Len(events)}

\* the record of write call s was consumed and is neither displayed nor in
\* the hands of the pulling task
Gone(s) ==
    /\ s <= nwrites
    /\ pollEv = <<>>
    /\ \A j \in 1..Len(ring) : ring[j].seq # s
    /\ s \notin LineSeqs

\* C36: the allow-list of the interactive consumer is always empty; a
\* record that reaches the descriptor test while showAll is false is
\* dropped there, whatever its descriptor; and a record that was consumed
\* without being displayed is never displayed later, whatever is toggled
C36_EmptyAllowList ==
    /\ [](fdFilter = {})
    /\ [][(pollPc = "fdcheck" /\ ~showAll /\ pollPc' # pollPc) =>
              /\ pollPc' = "read"
              /\ pollEv' = <<>>
              /\ events' = events
              /\ accepted' = accepted]_vars
    /\ \A s \in 1..MaxWrites : [](Gone(s) => [](s \notin LineSeqs))

\* after a line was displayed, a write to descriptor 1 stands at the
\* descriptor test with showAll switched off
C36_Witness ==
    /\ pollPc = "fdcheck" /\ ~showAll /\ pollEv[1].FD = 1
    /\ Len(events) = 1
    /\ ENABLED (PollFdCheck /\ pollPc' = "read" /\ pollEv' = <<>>)

----------------------------------------------------------------------------
(* ---- the keys in Filtering ---- *)

\* the character the keys a, b, ? and / stand for
TypedChar(k) == IF k = "a" THEN 97 ELSE IF k = "b" THEN 98 ELSE IF k = "?" THEN 63 ELSE 47

\* C37: in Filtering no step ends the consumer or changes showAll,
\* skipBinary or the help panel; q and ctrl+c only lead back to Normal; the
\* keys a, b, ? and / are typed into the draft and esc is handed to the
\* text input too, leaving Filtering, the draft and the active regex alone
C37_FilteringKeysGoToInput ==
    /\ [][filtering => /\ tui' = tui
                       /\ showAll' = showAll
                       /\ skipBinary' = skipBinary
                       /\ helpShowAll' = helpShowAll]_vars
    /\ [][filtering /\ filtering' =>
              /\ grepRegex' = grepRegex
              /\ \/ input' = input
                 \/ \E k \in {"a", "b", "?", "/"} : input' = Append(input, TypedChar(k))]_vars
    /\ [](filtering /\ tui = "running" /\ exitCode = -1 =>
            /\ \A k \in QuitKeys :
                  ENABLED (UpdateKey(k) /\ ~filtering' /\ tui' = "running"
                           /\ grepRegex' = grepRegex /\ showAll' = showAll /\ skipBinary' = skipBinary)
            /\ Len(input) < MaxDraft =>
                  \A k \in {"a", "b", "?", "/"} :
                      ENABLED (UpdateKey(k) /\ filtering' /\ input' = Append(input, TypedChar(k))
                               /\ grepRegex' = grepRegex)
            /\ ENABLED (UpdateKey("esc") /\ filtering' /\ input' = input /\ grepRegex' = grepRegex))

\* the key a was typed into an empty draft in Filtering while a regex is
\* active: showAll is still set, the regex still there
C37_Witness ==
    filtering /\ entryLen = 0 /\ input = <<97>> /\ showAll /\ skipBinary /\ grepRegex = <<<<>>>>

----------------------------------------------------------------------------
(* ---- the line list ---- *)

\* C38: the line list only grows: every step leaves the lines that are
\* displayed where they are and as they are, whatever the message and
\* whatever happens to the regex, showAll and skipBinary
C38_LineListOnlyGrows ==
    [][/\ Len(events') >= Len(events)
       /\ SubSeq(events', 1, Len(events)) = events]_vars

\* the line of a write of the text a is displayed after the regex was set
\* to b and showAll was switched off
C38_Witness ==
    /\ Len(events) = 1 /\ events[1].text = Str(<<97>>)
    /\ grepRegex = <<<<98>>>> /\ ~showAll /\ ready

----------------------------------------------------------------------------
(* ---- a record whose data_len field exceeds the data array ---- *)

\* the pulling task of either variant reads a full-length record whose
\* data_len field is 241
TuiBadLen == PollRead("record", "badlen")
CliBadLen == TaskRead("record", "badlen")

\* every payload the consumers hold is at most 240 bytes long
PayloadsFit ==
    /\ \A i \in 1..Len(accepted) : Len(accepted[i].Payload) <= DataSize
    /\ pollEv # <<>> => Len(pollEv[1].Payload) <= DataSize
    /\ lastEvent # <<>> => Len(lastEvent[1].Payload) <= DataSize

\* C39 as stated: in both variants the read of a full-length record with
\* data_len > 240 aborts the process; the record is neither turned into
\* an Event nor skipped
C39_BadLenAlwaysAborts ==
    /\ (tui # "none" /\ ENABLED TuiBadLen) =>
           ~ENABLED (TuiBadLen /\ (exitCode' = -1 \/ pollEv' # pollEv \/ accepted' # accepted))
    /\ (tui = "none" /\ ENABLED CliBadLen /\ Head(ring).lost = 0) =>
           ~ENABLED (CliBadLen /\ exitCode' = -1)
    /\ PayloadsFit

\* C39, amended: the interactive variant aborts on every such record; the
\* non-interactive variant tests the descriptor first, skips the record
\* and goes on when the descriptor is filtered out, and aborts otherwise;
\* no payload longer than 240 bytes is ever produced
C39_BadLenAbortsUnlessFilteredOut ==
    /\ (tui # "none" /\ ENABLED TuiBadLen) =>
           ~ENABLED (TuiBadLen /\ (exitCode' = -1 \/ pollEv' # pollEv \/ accepted' # accepted))
    /\ (tui = "none" /\ ENABLED CliBadLen /\ Head(ring).lost = 0) =>
           IF showAll \/ Head(ring).fd \in fdFilter
           THEN ~ENABLED (CliBadLen /\ (exitCode' = -1 \/ out' # out))
           ELSE ~ENABLED (CliBadLen /\ ~(/\ exitCode' = -1
                                         /\ pollPc' = "top"
                                         /\ ring' = Tail(ring)
                                         /\ out' = out
                                         /\ lastEvent' = lastEvent
                                         /\ repeatCount' = repeatCount))
    /\ PayloadsFit

\* the non-interactive variant stands before a record of descriptor 3
\* while only descriptor 1 is allowed, after it printed a line
C39_Witness ==
    /\ tui = "none" /\ ENABLED CliBadLen
    /\ ~showAll /\ fdFilter = {1} /\ Head(ring).lost = 0 /\ Head(ring).fd = 3
    /\ Len(out) = 1

----------------------------------------------------------------------------
(* ---- read errors of the non-interactive pipeline ---- *)

\* the read of the pulling task fails with an error other than closed
ReadFails == TaskRead("error", "none")

\* C40: a failed read never stops the pulling task: the task is back at
\* the top of its loop with nothing else changed, from where it reads and
\* can fail again; while the process lives the task stops only at the top
\* of an iteration with the context cancelled, or in a read of the closed
\* reader
C40_ReadErrorNeverStops ==
    /\ [](pollPc = "read" /\ rd = "open" /\ exitCode = -1 =>
            /\ ENABLED ReadFails
            /\ ~ENABLED (ReadFails /\ ~(/\ pollPc' = "top"
                                       /\ ~done'
                                       /\ exitCode' = -1
                                       /\ UNCHANGED <<ring, out, lastEvent, lastDataStr, repeatCount>>)))
    /\ [](pollPc = "top" /\ ~ctxDone /\ exitCode = -1 => ENABLED (TaskTop /\ pollPc' = "read"))
    /\ [][(pollPc # "stopped" /\ pollPc' = "stopped" /\ exitCode' = -1) =>
              \/ pollPc = "top" /\ ctxDone
              \/ pollPc = "read" /\ rd = "closed"]_vars
    /\ [][(~done /\ done') =>
              \/ pollPc = "top" /\ ctxDone
              \/ pollPc = "read" /\ rd = "closed"]_vars

\* the task is in a read that may fail, after it printed a line and with a
\* sample waiting: the failure leads back to the top of the loop
C40_Witness ==
    /\ pollPc = "read" /\ rd = "open" /\ exitCode = -1
    /\ Len(out) = 1 /\ ring # <<>>
    /\ ENABLED (ReadFails /\ pollPc' = "top" /\ ring' = ring)

====
